---- MODULE Spec2Model ----
(***************************************************************************)
(* Model of tab_transformer/core/bank.py: BankPreprocessor.preprocess,     *)
(* BankPreprocessor.get_dataset and BankDataset.                           *)
(*                                                                         *)
(* Python floats are IEEE-754 binary64.  They are modelled bit-exactly:    *)
(* a float is a sign, a 53-bit significand and a binary exponent, and      *)
(* every arithmetic operation is the exact result rounded to nearest,      *)
(* ties to even.  Significands exceed the range of the model checker's     *)
(* integers, so they are kept as little-endian sequences of limbs.         *)
(***************************************************************************)
EXTENDS Integers, Sequences, FiniteSets, TLC

----------------------------------------------------------------------------
(* Unbounded naturals: little-endian limbs in base LimbBase, no leading    *)
(* zero limb; << >> is zero.                                               *)

LimbBits == 15
LimbBase == 2^LimbBits

RECURSIVE BNorm(_)
BNorm(a) ==
    IF a = << >> THEN << >>
    ELSE IF a[Len(a)] = 0 THEN BNorm(SubSeq(a, 1, Len(a) - 1))
    ELSE a

RECURSIVE BFromInt(_)
BFromInt(n) ==
    IF n = 0 THEN << >> ELSE <<n % LimbBase>> \o BFromInt(n \div LimbBase)

RECURSIVE BToInt(_)
BToInt(a) ==
    IF a = << >> THEN 0 ELSE a[1] + LimbBase * BToInt(Tail(a))

BLimb(a, i) == IF i <= Len(a) THEN a[i] ELSE 0

RECURSIVE BCmpFrom(_, _, _)
BCmpFrom(a, b, i) ==
    IF i = 0 THEN 0
    ELSE IF a[i] < b[i] THEN -1
    ELSE IF a[i] > b[i] THEN 1
    ELSE BCmpFrom(a, b, i - 1)

\* -1, 0 or 1 as a < b, a = b, a > b.
BCmp(a, b) ==
    IF Len(a) < Len(b) THEN -1
    ELSE IF Len(a) > Len(b) THEN 1
    ELSE BCmpFrom(a, b, Len(a))

RECURSIVE BAddFrom(_, _, _, _)
BAddFrom(a, b, i, c) ==
    IF i > Len(a) /\ i > Len(b)
    THEN IF c = 0 THEN << >> ELSE <<c>>
    ELSE LET s == BLimb(a, i) + BLimb(b, i) + c
         IN  <<s % LimbBase>> \o BAddFrom(a, b, i + 1, s \div LimbBase)

BAdd(a, b) == BAddFrom(a, b, 1, 0)

RECURSIVE BSubFrom(_, _, _, _)
BSubFrom(a, b, i, c) ==
    IF i > Len(a) THEN << >>
    ELSE LET s == a[i] - BLimb(b, i) - c
         IN  IF s < 0 THEN <<s + LimbBase>> \o BSubFrom(a, b, i + 1, 1)
             ELSE <<s>> \o BSubFrom(a, b, i + 1, 0)

\* a - b for a >= b.
BSub(a, b) == BNorm(BSubFrom(a, b, 1, 0))

RECURSIVE BMulSmallFrom(_, _, _, _)
BMulSmallFrom(a, k, i, c) ==
    IF i > Len(a)
    THEN IF c = 0 THEN << >> ELSE <<c>>
    ELSE LET s == a[i] * k + c
         IN  <<s % LimbBase>> \o BMulSmallFrom(a, k, i + 1, s \div LimbBase)

\* a * k for 0 <= k < LimbBase.
BMulSmall(a, k) == IF k = 0 THEN << >> ELSE BMulSmallFrom(a, k, 1, 0)

RECURSIVE BMulFrom(_, _, _)
BMulFrom(a, b, i) ==
    IF i > Len(b) THEN << >>
    ELSE LET rest == BMulFrom(a, b, i + 1)
             high == IF rest = << >> THEN << >> ELSE <<0>> \o rest
         IN  BAdd(BMulSmall(a, b[i]), high)

BMul(a, b) == IF a = << >> \/ b = << >> THEN << >> ELSE BMulFrom(a, b, 1)

RECURSIVE IntBitLen(_)
IntBitLen(n) == IF n = 0 THEN 0 ELSE 1 + IntBitLen(n \div 2)

BBitLen(a) ==
    IF a = << >> THEN 0 ELSE LimbBits * (Len(a) - 1) + IntBitLen(a[Len(a)])

\* a * 2^n.
BShl(a, n) ==
    IF a = << >> THEN << >>
    ELSE [i \in 1..(n \div LimbBits) |-> 0] \o BMulSmall(a, 2^(n % LimbBits))

\* floor(a / 2^n).
BShr(a, n) ==
    LET q == n \div LimbBits
        r == n % LimbBits
        m == Len(a) - q
    IN  IF m <= 0 THEN << >>
        ELSE BNorm([i \in 1..m |->
                 (a[i + q] \div 2^r)
                 + (BLimb(a, i + q + 1) % 2^r) * 2^(LimbBits - r)])

\* a mod 2^n = 0.
BLowZero(a, n) ==
    LET q == n \div LimbBits
        r == n % LimbBits
    IN  /\ \A i \in 1..q : BLimb(a, i) = 0
        /\ BLimb(a, q + 1) % 2^r = 0

\* Bit i of a (bit 0 is the least significant).
BBit(a, i) == (BLimb(a, (i \div LimbBits) + 1) \div 2^(i % LimbBits)) % 2

\* Short division by a one-limb divisor d, from limb i of n downwards, with
\* the quotient limbs q so far (little-endian) and the remainder r so far.
RECURSIVE BDivSmallFrom(_, _, _, _, _)
BDivSmallFrom(n, d, i, q, r) ==
    IF i = 0 THEN <<BNorm(q), BFromInt(r)>>
    ELSE BDivSmallFrom(n, d, i - 1, <<(r * LimbBase + n[i]) \div d>> \o q,
                       (r * LimbBase + n[i]) % d)

\* The remainder r shifted left by one bit, with the next dividend bit.
BDivShift(r, bit) ==
    IF r = << >> THEN (IF bit = 1 THEN <<1>> ELSE << >>)
    ELSE BAddFrom(r, r, 1, bit)

\* Long division, the quotient bits of one limb v of the dividend, from
\* bit j of v downwards, with the quotient bits q so far and the shifted
\* remainder r2.
RECURSIVE BDivBits(_, _, _, _, _)
BDivBits(v, d, j, q, r2) ==
    IF BCmp(r2, d) >= 0
    THEN IF j = 0 THEN <<2 * q + 1, BSub(r2, d)>>
         ELSE BDivBits(v, d, j - 1, 2 * q + 1,
                       BDivShift(BSub(r2, d), (v \div 2^(j - 1)) % 2))
    ELSE IF j = 0 THEN <<2 * q, r2>>
         ELSE BDivBits(v, d, j - 1, 2 * q,
                       BDivShift(r2, (v \div 2^(j - 1)) % 2))

\* Long division from limb i of n downwards, with the quotient limbs q so
\* far (little-endian); step is the quotient limb and remainder of limb
\* i + 1.
RECURSIVE BDivLongFrom(_, _, _, _, _)
BDivLongFrom(n, d, i, q, step) ==
    IF i = 0 THEN <<BNorm(<<step[1]>> \o q), step[2]>>
    ELSE BDivLongFrom(n, d, i - 1, <<step[1]>> \o q,
             BDivBits(n[i], d, LimbBits - 1, 0,
                      BDivShift(step[2], n[i] \div 2^(LimbBits - 1))))

\* <<floor(n / d), n mod d>> for d > 0.
BDivMod(n, d) ==
    IF Len(d) = 1 THEN BDivSmallFrom(n, d[1], Len(n), << >>, 0)
    ELSE BDivLongFrom(n, d, Len(n), << >>, <<0, << >> >>)

\* The number of low limbs of a # 0 that are zero.
RECURSIVE BLowZeroLimbs(_)
BLowZeroLimbs(a) == IF a[1] # 0 THEN 0 ELSE 1 + BLowZeroLimbs(Tail(a))

----------------------------------------------------------------------------
(* Python float: IEEE-754 binary64.  A non-zero float is                   *)
(* (-1)^neg * man * 2^exp with 2^52 <= man < 2^53; zero is FZero.          *)
(* Exponent overflow, subnormals, infinities and NaN do not arise for the  *)
(* magnitudes the model feeds in and are not represented.                  *)

MantBits == 53

FZero == [neg |-> FALSE, man |-> << >>, exp |-> 0]

FIsZero(x) == x.man = << >>

\* A significand m of MantBits or MantBits + 1 bits with exponent x.
FPack(neg, m, x) ==
    IF BBitLen(m) > MantBits
    THEN [neg |-> neg, man |-> BShr(m, 1), exp |-> x + 1]
    ELSE [neg |-> neg, man |-> m, exp |-> x]

\* Round to nearest, ties to even: m is n without its low drop bits.
FRoundUp(n, sticky, m, drop) ==
    /\ BBit(n, drop - 1) = 1
    /\ (sticky \/ ~BLowZero(n, drop - 1) \/ BBit(m, 0) = 1)

FCut(neg, n, e, sticky, m, drop) ==
    FPack(neg, IF FRoundUp(n, sticky, m, drop) THEN BAdd(m, <<1>>) ELSE m,
          e + drop)

FSized(neg, n, e, sticky, len) ==
    IF len <= MantBits
    THEN [neg |-> neg, man |-> BShl(n, MantBits - len),
          exp |-> e - (MantBits - len)]
    ELSE FCut(neg, n, e, sticky, BShr(n, len - MantBits), len - MantBits)

\* (-1)^neg * (n + f) * 2^e rounded to nearest, ties to even, where f is a
\* fraction in [0, 1) that is non-zero exactly when sticky holds (sticky
\* requires n to have more than MantBits bits).
FRound(neg, n, e, sticky) ==
    IF n = << >> THEN FZero ELSE FSized(neg, n, e, sticky, BBitLen(n))

\* float(n) for a Python int n.
FFromInt(n) == FRound(n < 0, BFromInt(IF n < 0 THEN -n ELSE n), 0, FALSE)

\* A quotient and remainder qr of significands, with exponent e.
FQuot(neg, e, qr) == FRound(neg, qr[1], e, qr[2] # << >>)

FRatioAt(p, q, s) == FQuot(FALSE, -s, BDivMod(BShl(BFromInt(p), s), BFromInt(q)))

\* The float literal that denotes p/q (such as 0.7 = 7/10): the float
\* nearest to p/q, for integers p >= 0, q > 0.
FFromRatio(p, q) ==
    IF p = 0 THEN FZero
    ELSE FRatioAt(p, q, MantBits + 2 + IntBitLen(q) - IntBitLen(p))

FNeg(x) == IF FIsZero(x) THEN x ELSE [x EXCEPT !.neg = ~x.neg]

\* x * y
FMul(x, y) ==
    IF FIsZero(x) \/ FIsZero(y) THEN FZero
    ELSE FRound(x.neg # y.neg, BMul(x.man, y.man), x.exp + y.exp, FALSE)

FDivBy(x, y, z, d) ==
    FQuot(x.neg # y.neg, x.exp - (y.exp + LimbBits * z) - (MantBits + 2),
          BDivMod(BShl(x.man, MantBits + 2), d))

FDivLow(x, y, z) == FDivBy(x, y, z, SubSeq(y.man, z + 1, Len(y.man)))

\* x / y for y # 0.  Whole zero limbs at the low end of the divisor's
\* significand are moved into the exponent first; the quotient of the
\* significands is taken to MantBits + 2 bits or more, with the remainder
\* as the sticky bit.
FDiv(x, y) ==
    IF FIsZero(x) THEN FZero ELSE FDivLow(x, y, BLowZeroLimbs(y.man))

\* The sum of the aligned significands a of x and b of y; c compares them.
FSum(x, y, a, b, c, e) ==
    IF x.neg # y.neg /\ c = 0 THEN FZero
    ELSE FRound(IF x.neg = y.neg \/ c > 0 THEN x.neg ELSE y.neg,
                IF x.neg = y.neg THEN BAdd(a, b)
                ELSE IF c > 0 THEN BSub(a, b) ELSE BSub(b, a),
                e, FALSE)

FAligned(x, y, a, b, e) == FSum(x, y, a, b, BCmp(a, b), e)

FAlign(x, y, e) ==
    FAligned(x, y, BShl(x.man, x.exp - e), BShl(y.man, y.exp - e), e)

\* x + y
FAdd(x, y) ==
    IF FIsZero(x) THEN y
    ELSE IF FIsZero(y) THEN x
    ELSE FAlign(x, y, IF x.exp < y.exp THEN x.exp ELSE y.exp)

\* x - y
FSub(x, y) == FAdd(x, FNeg(y))

\* -1, 0 or 1 as |x| < |y|, |x| = |y|, |x| > |y|.
FCmpAbs(x, y) ==
    IF FIsZero(x) THEN (IF FIsZero(y) THEN 0 ELSE -1)
    ELSE IF FIsZero(y) THEN 1
    ELSE IF x.exp < y.exp THEN -1
    ELSE IF x.exp > y.exp THEN 1
    ELSE BCmp(x.man, y.man)

\* -1, 0 or 1 as x < y, x = y, x > y.
FCmp(x, y) ==
    IF x.neg # y.neg THEN (IF x.neg THEN -1 ELSE 1)
    ELSE IF x.neg THEN FCmpAbs(y, x)
    ELSE FCmpAbs(x, y)

FLess(x, y) == FCmp(x, y) < 0
FLeq(x, y) == FCmp(x, y) <= 0

FSigned(x, a) == IF x.neg THEN -a ELSE a

\* int(x): truncation towards zero.
FToInt(x) ==
    IF FIsZero(x) THEN 0
    ELSE FSigned(x, IF x.exp >= 0 THEN BToInt(BShl(x.man, x.exp))
                    ELSE BToInt(BShr(x.man, -x.exp)))

----------------------------------------------------------------------------
(* Library behaviour the pipeline calls: pandas Series.map, unique and     *)
(* iloc, Python's sorted, numpy's median and percentile, and the two       *)
(* scikit-learn scalers.                                                   *)

\* The missing value that Series.map puts where the dictionary has no key.
\* Mapped cells are integer codes >= 0, so -1 stands for NaN.
NaN == -1

\* Series.map(map_dict) on one cell.
MapCell(map_dict, v) == IF v \in DOMAIN map_dict THEN map_dict[v] ELSE NaN

\* Series.unique(): the distinct values in order of first appearance.
RECURSIVE Unique(_)
Unique(col) ==
    IF col = << >> THEN << >>
    ELSE LET init == Unique(SubSeq(col, 1, Len(col) - 1))
             last == col[Len(col)]
         IN  IF \E i \in 1..Len(init) : init[i] = last THEN init
             ELSE Append(init, last)

\* The raw strings of the categorical columns in Python's str order.
StrOrder == <<"admin.", "apr", "aug", "blue-collar", "dec", "feb", "jan", "jul",
              "jun", "mar", "may", "nov", "oct", "sep", "technician">>

StrRank(v) == CHOOSE i \in 1..Len(StrOrder) : StrOrder[i] = v

\* a < b on Python strings.
StrLess(a, b) == StrRank(a) < StrRank(b)

RECURSIVE InsertStr(_, _)
InsertStr(sorted, v) ==
    IF sorted = << >> THEN <<v>>
    ELSE IF StrLess(v, Head(sorted)) THEN <<v>> \o sorted
    ELSE <<Head(sorted)>> \o InsertStr(Tail(sorted), v)

\* sorted(list) on strings.
RECURSIVE SortedStr(_)
SortedStr(l) ==
    IF l = << >> THEN << >>
    ELSE InsertStr(SortedStr(SubSeq(l, 1, Len(l) - 1)), l[Len(l)])

\* {v: i for i, v in enumerate(l)} for a list l without repetition.
Enumerate(l) == [v \in {l[i] : i \in 1..Len(l)} |->
                    (CHOOSE i \in 1..Len(l) : l[i] = v) - 1]

RECURSIVE InsertFloat(_, _)
InsertFloat(sorted, v) ==
    IF sorted = << >> THEN <<v>>
    ELSE IF FLess(v, Head(sorted)) THEN <<v>> \o sorted
    ELSE <<Head(sorted)>> \o InsertFloat(Tail(sorted), v)

\* The column sorted ascending, as numpy partitions it for its quantiles.
RECURSIVE SortedFloat(_)
SortedFloat(l) ==
    IF l = << >> THEN << >>
    ELSE InsertFloat(SortedFloat(SubSeq(l, 1, Len(l) - 1)), l[Len(l)])

FOne == FFromInt(1)

FHalf == FFromRatio(1, 2)

MedianOf(s) ==
    IF Len(s) % 2 = 1 THEN s[(Len(s) + 1) \div 2]
    ELSE FDiv(FAdd(s[Len(s) \div 2], s[Len(s) \div 2 + 1]), FFromInt(2))

\* numpy.nanmedian of a non-empty column: the middle element, or the mean
\* of the two middle elements.
Median(col) == MedianOf(SortedFloat(col))

\* numpy's linear interpolation between a and b at fraction t, with
\* diff = b - a: a + diff * t, taken as b - diff * (1 - t) when t >= 0.5.
Lerp(a, b, t, diff) ==
    IF FLeq(FHalf, t) THEN FSub(b, FMul(diff, FSub(FOne, t)))
    ELSE FAdd(a, FMul(diff, t))

LerpBetween(a, b, t) == Lerp(a, b, t, FSub(b, a))

PercentileAt(s, vi, lo) ==
    LerpBetween(s[lo + 1], s[IF lo + 2 <= Len(s) THEN lo + 2 ELSE Len(s)],
                FSub(vi, FFromInt(lo)))

PercentileOf(s, vi) == PercentileAt(s, vi, FToInt(vi))

\* numpy.nanpercentile(col, p), linear interpolation: the virtual index
\* (n - 1) * (p / 100) is split into a position and a fraction.
Percentile(col, p) ==
    PercentileOf(SortedFloat(col),
                 FMul(FFromInt(Len(col) - 1), FDiv(FFromInt(p), FFromInt(100))))

\* The float epsilon 2^-52.
FEps == [neg |-> FALSE, man |-> BShl(<<1>>, MantBits - 1),
         exp |-> 2 - 2 * MantBits]

\* sklearn _handle_zeros_in_scale: a scale below 10 * eps becomes 1.0.
HandleZeros(scale) ==
    IF FLess(scale, FMul(FFromInt(10), FEps)) THEN FOne ELSE scale

RobustApply(col, center_, scale_) ==
    [i \in 1..Len(col) |-> FDiv(FSub(col[i], center_), scale_)]

RobustScale(quantiles) == HandleZeros(FSub(quantiles[75], quantiles[25]))

\* RobustScaler().fit_transform on one column: centre on the median,
\* divide by the interquartile range.
RobustTransform(col) ==
    RobustApply(col, Median(col),
                RobustScale([p \in {25, 75} |-> Percentile(col, p)]))

FMin(a, b) == IF FLess(b, a) THEN b ELSE a

FMax(a, b) == IF FLess(a, b) THEN b ELSE a

RECURSIVE FMinOf(_)
FMinOf(col) ==
    IF Len(col) = 1 THEN col[1] ELSE FMin(col[1], FMinOf(Tail(col)))

RECURSIVE FMaxOf(_)
FMaxOf(col) ==
    IF Len(col) = 1 THEN col[1] ELSE FMax(col[1], FMaxOf(Tail(col)))

MinMaxApply(col, scale_, min_) ==
    [i \in 1..Len(col) |-> FAdd(FMul(col[i], scale_), min_)]

MinMaxShift(col, data_min, scale_) ==
    MinMaxApply(col, scale_, FSub(FZero, FMul(data_min, scale_)))

\* MinMaxFit with the scale taken from the maximum instead of the range.
MinMaxFitNoMin(col, data_min, data_max) ==
    MinMaxShift(col, data_min,
                FDiv(FSub(FOne, FZero), HandleZeros(data_max)))

MinMaxFit(col, data_min, data_max) ==
    MinMaxShift(col, data_min,
                FDiv(FSub(FOne, FZero), HandleZeros(FSub(data_max, data_min))))

\* MinMaxScaler().fit_transform on one column, feature_range (0, 1),
\* no clipping: scale_ = (1 - 0) / range, min_ = 0 - data_min * scale_,
\* X * scale_ + min_.
MinMaxTransform(col) == MinMaxFit(col, FMinOf(col), FMaxOf(col))

----------------------------------------------------------------------------
(* The pipeline.  bank-full.csv has seven continuous columns, nine         *)
(* categorical columns and the label y; the code treats every continuous   *)
(* column alike and every categorical column but month alike, so the model *)
(* keeps one of each kind: age, job, month and y.                          *)

MaxRows == 3
MaxPreRows == 4
MaxSplitRows == 10
RatioDen == 10

VARIABLES
    csv,          \* the table load_data returns: a sequence of raw rows
    pc,           \* "start", "split", "preprocessed", "done" or "raised"
    processed,    \* what preprocess() returned to its caller
    datasets,     \* the three BankDataset objects get_dataset returned
    map_records,  \* the mapping collection get_dataset returned
    split,        \* the arguments of get_dataset and, once it has run, its
                  \* points and, per partition, the index labels the rows had
                  \* before reset_index
    ret           \* outcome of the latest call

vars == <<csv, pc, processed, datasets, map_records, split, ret>>

Names == {"train", "val", "test"}

cont_features == <<"age">>

\* list(set(data.columns).difference(set(cont_features))) without 'y':
\* a set is listed in an order the language does not fix.
CateOrders == {<<"job", "month">>, <<"month", "job">>}

month_list == <<"jan", "feb", "mar", "apr", "may", "jun", "jul", "aug",
                "oct", "nov", "dec">>

LabelMap == [v \in {"yes", "no"} |-> IF v = "yes" THEN 1 ELSE 0]

Column(data, f) == [i \in 1..Len(data) |-> data[i][f]]

\* MapDict with the classes numbered in order of first appearance.
MapDictUnsorted(f, col) ==
    IF f = "month" THEN Enumerate(month_list) ELSE Enumerate(Unique(col))

\* The map_dict of one categorical column.
MapDict(f, col) ==
    IF f = "month" THEN Enumerate(month_list)
    ELSE Enumerate(SortedStr(Unique(col)))

\* The scaled continuous column: RobustScaler, then MinMaxScaler fitted on
\* its output.
Scaled(col) ==
    MinMaxTransform(RobustTransform([i \in 1..Len(col) |-> FFromInt(col[i])]))

\* Lines 81-100: the map_dict of every categorical column and the scaled
\* continuous column.  RobustScaler refuses a table without rows with a
\* ValueError.  The order in which cate_features lists the columns does not
\* enter.
Fit(data) ==
    IF Len(data) = 0 THEN [status |-> "ValueError"]
    ELSE [status |-> "ok",
          records |-> [f \in {"job", "month"} |-> MapDict(f, Column(data, f))],
          scaled |-> Scaled(Column(data, "age"))]

\* preprocess() on the loaded table, with cate_features in the given order
\* and the outcome fit of lines 81-100.
Preprocess(data, cate_features, fit) ==
    IF fit.status # "ok" THEN fit
    ELSE [status |-> "ok",
          data |-> [i \in 1..Len(data) |->
                      [index |-> i - 1,
                       job |-> MapCell(fit.records["job"], data[i].job),
                       month |-> MapCell(fit.records["month"], data[i].month),
                       age |-> fit.scaled[i],
                       y |-> MapCell(LabelMap, data[i].y)]],
          map_records |-> fit.records,
          cate_features |-> cate_features,
          cont_features |-> cont_features]

\* The permutations of 1 .. n.
Perms(n) == {q \in [1..n -> 1..n] : \A i, j \in 1..n : q[i] = q[j] => i = j}

\* data.sample(frac=1.0): every reordering of the rows, index labels kept.
Shuffles(data) == {[i \in 1..Len(data) |-> data[q[i]]] : q \in Perms(Len(data))}

\* Points with the second point taken from val_ratio alone.
PointsNoSum(n, train_ratio, val_ratio) ==
    <<FToInt(FMul(FFromInt(n), train_ratio)),
      FToInt(FMul(FFromInt(n), val_ratio))>>

\* points: int(N * train_ratio) and int(N * (train_ratio + val_ratio)).
Points(n, train_ratio, val_ratio) ==
    <<FToInt(FMul(FFromInt(n), train_ratio)),
      FToInt(FMul(FFromInt(n), FAdd(train_ratio, val_ratio)))>>

\* Iloc with the end position included.
IlocInclusive(data, a, b) ==
    SubSeq(data, (IF a < Len(data) THEN a ELSE Len(data)) + 1,
           IF b + 1 < Len(data) THEN b + 1 ELSE Len(data))

\* data.iloc[a:b] for a, b >= 0: positions a .. b-1, cut at the end of the
\* frame, empty when a >= b.
Iloc(data, a, b) ==
    SubSeq(data, (IF a < Len(data) THEN a ELSE Len(data)) + 1,
           IF b < Len(data) THEN b ELSE Len(data))

\* reset_index(drop=True): index labels become 0 .. len-1.
ResetIndex(data) == [i \in 1..Len(data) |-> [data[i] EXCEPT !.index = i - 1]]

\* Slices with the test slice starting one row late.
SlicesDropRow(data, points) ==
    [k \in Names |->
        IF k = "train" THEN Iloc(data, 0, points[1])
        ELSE IF k = "val" THEN Iloc(data, points[1], points[2])
        ELSE Iloc(data, points[2] + 1, Len(data))]

\* The three slices of the shuffled frame, before reset_index.
Slices(data, points) ==
    [k \in Names |->
        IF k = "train" THEN Iloc(data, 0, points[1])
        ELSE IF k = "val" THEN Iloc(data, points[1], points[2])
        ELSE Iloc(data, points[2], Len(data))]

\* Lines 128-144: every slice, re-indexed, in a BankDataset of its own.
Datasets(dataset, cate_features, cont_feats) ==
    [k \in Names |-> [file |-> ResetIndex(dataset[k]),
                      cate_features |-> cate_features,
                      cont_features |-> cont_feats]]

\* The sample built from one row of the file.
Sample(ds, row) ==
    [cate_features |->
        [f \in {ds.cate_features[i] : i \in 1..Len(ds.cate_features)} |-> row[f]],
     cont_features |->
        [f \in {ds.cont_features[i] : i \in 1..Len(ds.cont_features)} |-> row[f]],
     labels |-> [f \in {"y"} |-> row[f]]]

\* DataFrame.iloc[pos, :] once a negative idx has been counted from the end.
RowAt(ds, pos) ==
    IF pos < 0 \/ pos >= Len(ds.file) THEN [status |-> "IndexError"]
    ELSE [status |-> "ok", sample |-> Sample(ds, ds.file[pos + 1])]

\* BankDataset.__getitem__(idx) on an integer idx: DataFrame.iloc[idx, :]
\* counts a negative idx from the end and raises IndexError outside
\* -len .. len-1.
GetItemResult(ds, idx) ==
    RowAt(ds, IF idx < 0 THEN idx + Len(ds.file) ELSE idx)

----------------------------------------------------------------------------
(* Inputs.                                                                 *)

\* All tables of lo .. hi rows over a set of rows.
Tables(rows, lo, hi) == UNION {[1..n -> rows] : n \in lo..hi}

BaseRow == [job |-> "admin.", month |-> "may", age |-> 1, y |-> "no"]

\* Rows of the tables the whole pipeline is run on.
Rows == {BaseRow, [job |-> "technician", month |-> "dec", age |-> 4, y |-> "yes"]}

Jobs == {"admin.", "blue-collar", "technician"}
Months == {"jan", "mar", "sep", "dec"}
Labels == {"yes", "no", "unknown"}
Ages == {0, 1, 2, 5, 8}

\* Numerators over RatioDen of the ratios the whole pipeline is run with.
RatioNums == {0, 4, 7}

\* Rows of the tables preprocess is run on: one column takes every value
\* of its domain, the others stay as in BaseRow.
PreRowFamilies ==
    { {[BaseRow EXCEPT !.job = v] : v \in Jobs},
      {[BaseRow EXCEPT !.month = v] : v \in Months},
      {[BaseRow EXCEPT !.age = v] : v \in Ages},
      {[BaseRow EXCEPT !.y = v] : v \in Labels} }

PreTables == UNION {Tables(fam, 0, MaxPreRows) : fam \in PreRowFamilies}

None == "None"

NoCall == [op |-> "none"]

----------------------------------------------------------------------------
(* Operations.                                                             *)

PreprocessReturn(pre) ==
    /\ processed' = pre
    /\ pc' = IF pre.status = "ok" THEN "preprocessed" ELSE "raised"
    /\ ret' = [op |-> "preprocess", status |-> pre.status]

PreprocessWith(fit) ==
    \E cate_features \in CateOrders :
        PreprocessReturn(Preprocess(csv, cate_features, fit))

\* preprocess(), called directly.
PreprocessCall ==
    /\ pc = "start"
    /\ PreprocessWith(Fit(csv))
    /\ UNCHANGED <<csv, datasets, map_records, split>>

\* Lines 123-146: cut the frame at the two points and return the datasets
\* with the mapping collection.
GetDatasetReturn(data, points, cate_features, cont_feats, records) ==
    /\ datasets' = Datasets(Slices(data, points), cate_features, cont_feats)
    /\ map_records' = records
    /\ split' = [split EXCEPT !.done = TRUE, !.n = Len(data),
                               !.points = points,
                               !.origin = [k \in Names |->
                                   Column(Slices(data, points)[k], "index")]]
    /\ pc' = "done"
    /\ ret' = [op |-> "get_dataset", status |-> "ok"]

\* Lines 121-126: shuffle, then compute the two points.
GetDatasetSplit(pre, points) ==
    \E data \in Shuffles(pre.data) :
        GetDatasetReturn(data, points, pre.cate_features, pre.cont_features,
                         pre.map_records)

GetDatasetOn(pre) ==
    /\ processed' = pre
    /\ IF pre.status # "ok"
       THEN /\ pc' = "raised"
            /\ ret' = [op |-> "get_dataset", status |-> pre.status]
            /\ UNCHANGED <<datasets, map_records, split>>
       ELSE GetDatasetSplit(pre, Points(Len(pre.data),
                                        FFromRatio(split.tnum, RatioDen),
                                        FFromRatio(split.vnum, RatioDen)))

GetDatasetWith(fit) ==
    \E cate_features \in CateOrders :
        GetDatasetOn(Preprocess(csv, cate_features, fit))

\* get_dataset(train_ratio, val_ratio) with the ratios split.tnum / RatioDen
\* and split.vnum / RatioDen; processed keeps what its call of preprocess()
\* returned.
GetDataset ==
    /\ pc = "start"
    /\ GetDatasetWith(Fit(csv))
    /\ UNCHANGED csv

\* len(dataset) on one of the returned datasets.
LenCall ==
    /\ pc = "done"
    /\ \E k \in Names :
         ret' = [op |-> "len", ds |-> k, status |-> "ok",
                 value |-> Len(datasets[k].file)]
    /\ UNCHANGED <<csv, pc, processed, datasets, map_records, split>>

\* The integers dataset[idx] is called with: every position of the file,
\* counted from either end, and the first integer beyond each end.
Indices(ds) == (-(Len(ds.file) + 1))..Len(ds.file)

\* GetItem taking the row it returns out of the file.
GetItemPop ==
    /\ pc = "done"
    /\ \E k \in Names : \E idx \in Indices(datasets[k]) :
         /\ ret' = [op |-> "getitem", ds |-> k, idx |-> idx,
                    result |-> GetItemResult(datasets[k], idx)]
         /\ datasets' = [datasets EXCEPT ![k].file =
                IF GetItemResult(datasets[k], idx).status = "ok"
                THEN Tail(@) ELSE @]
    /\ UNCHANGED <<csv, pc, processed, map_records, split>>

\* dataset[idx] on one of the returned datasets.
GetItem ==
    /\ pc = "done"
    /\ \E k \in Names : \E idx \in Indices(datasets[k]) :
         ret' = [op |-> "getitem", ds |-> k, idx |-> idx,
                 result |-> GetItemResult(datasets[k], idx)]
    /\ UNCHANGED <<csv, pc, processed, datasets, map_records, split>>

\* Lines 123-146 on a processed frame of split.n rows that is not shuffled
\* and whose rows carry nothing but their index label.
Split ==
    /\ pc = "split"
    /\ GetDatasetReturn([i \in 1..split.n |-> [index |-> i - 1]],
                        Points(split.n, FFromRatio(split.tnum, RatioDen),
                               FFromRatio(split.vnum, RatioDen)),
                        << >>, << >>, [f \in {} |-> 0])
    /\ UNCHANGED <<csv, processed>>

----------------------------------------------------------------------------
(* Specifications.                                                         *)

\* The arguments of a call of get_dataset that has not run yet.
Args(ns, nums) ==
    [done : {FALSE}, n : ns, tnum : nums, vnum : nums,
     points : {None}, origin : {None}]

\* The whole pipeline.
Init ==
    /\ csv \in Tables(Rows, 0, MaxRows)
    /\ pc = "start"
    /\ processed = None
    /\ datasets = None
    /\ map_records = None
    /\ split \in Args({Len(csv)}, RatioNums)
    /\ ret = NoCall

Next == PreprocessCall \/ GetDataset \/ LenCall \/ GetItem

Spec == Init /\ [][Next]_vars

\* preprocess() over tables that exercise each column.
InitPre ==
    /\ csv \in PreTables
    /\ pc = "start"
    /\ processed = None
    /\ datasets = None
    /\ map_records = None
    /\ split \in Args({Len(csv)}, {0})
    /\ ret = NoCall

NextPre == PreprocessCall

SpecPre == InitPre /\ [][NextPre]_vars

\* The split over every row count and ratio pair.
InitSplit ==
    /\ csv = << >>
    /\ pc = "split"
    /\ processed = None
    /\ datasets = None
    /\ map_records = None
    /\ split \in Args(0..MaxSplitRows, 0..RatioDen)
    /\ ret = NoCall

NextSplit == Split

SpecSplit == InitSplit /\ [][NextSplit]_vars

----------------------------------------------------------------------------
(* The split: claims C1 to C4.                                             *)

Size(k) == Len(datasets[k].file)

\* train_ratio and val_ratio lie in [0, 1] and add up to at most 1.
ValidRatios == split.tnum + split.vnum <= RatioDen

\* The places <<partition, position>> of the returned datasets.
Places == UNION {{<<k, i>> : i \in 1..Size(k)} : k \in Names}

\* The row at a place with the index label it had before reset_index.
Original(p) ==
    [datasets[p[1]].file[p[2]] EXCEPT !.index = split.origin[p[1]][p[2]]]

\* C1: for a processed table of N rows and a valid ratio pair, the row
\* counts of the three partitions get_dataset returns add up to N, and every
\* row of the processed table is, unchanged, at exactly one place of exactly
\* one partition: the partitions are pairwise disjoint and their union as a
\* multiset of rows is the processed table.
C1Partition ==
    (pc = "done" /\ ValidRatios) =>
        /\ Size("train") + Size("val") + Size("test") = Len(processed.data)
        /\ \A j \in 1..Len(processed.data) :
              Cardinality({p \in Places : Original(p) = processed.data[j]
                                          /\ Original(p).index = j - 1}) = 1
        /\ \A p \in Places :
              /\ Original(p).index \in 0..(Len(processed.data) - 1)
              /\ Original(p) = processed.data[Original(p).index + 1]

\* A shuffled table of three rows has been cut into three partitions of one
\* row each.
C1Witness ==
    /\ pc = "done" /\ ValidRatios
    /\ \A k \in Names : Size(k) = 1
    /\ split.origin["train"] # <<0>>

\* floor(n * num / RatioDen) in exact arithmetic.
Floor(n, num) == (n * num) \div RatioDen

\* The part of C2 that does not depend on how the boundaries are rounded:
\* the slices are the contiguous ranges [0, b1), [b1, b2), [b2, N) of the
\* frame, so len(train) = b1, len(val) = b2 - b1 and len(test) = N - b2, with
\* 0 <= b1 <= b2 <= N, and each partition is re-indexed to 0 .. len-1.
Contiguous ==
    /\ 0 <= split.points[1] /\ split.points[1] <= split.points[2]
    /\ split.points[2] <= split.n
    /\ Size("train") = split.points[1]
    /\ Size("val") = split.points[2] - split.points[1]
    /\ Size("test") = split.n - split.points[2]
    /\ split.origin["train"] = [i \in 1..split.points[1] |-> i - 1]
    /\ split.origin["val"] =
          [i \in 1..(split.points[2] - split.points[1]) |->
              split.points[1] + i - 1]
    /\ split.origin["test"] =
          [i \in 1..(split.n - split.points[2]) |-> split.points[2] + i - 1]
    /\ \A k \in Names : \A i \in 1..Size(k) : datasets[k].file[i].index = i - 1

\* C2 as claimed: for every N and every valid ratio pair the boundaries are
\* b1 = floor(N * train_ratio) and b2 = floor(N * (train_ratio + val_ratio)),
\* and the slices are the contiguous ranges they delimit.
C2ExactFloor ==
    (pc = "done" /\ ValidRatios) =>
        /\ split.points[1] = Floor(split.n, split.tnum)
        /\ split.points[2] = Floor(split.n, split.tnum + split.vnum)
        /\ Contiguous

\* C2, amended: for every N and every valid ratio pair the boundaries are the
\* integer parts of the floating-point products N * train_ratio and
\* N * (train_ratio + val_ratio), each of which is at most one away from the
\* real-number floor, and the slices are the contiguous ranges they delimit.
C2FloatFloor ==
    (pc = "done" /\ ValidRatios) =>
        /\ split.points[1] - Floor(split.n, split.tnum) \in {-1, 0, 1}
        /\ split.points[2] - Floor(split.n, split.tnum + split.vnum) \in {-1, 0, 1}
        /\ Contiguous

\* Five rows with the ratios 0.7 and 0.1: the second boundary is 3, one
\* below floor(5 * 0.8) = 4.
C2Witness ==
    /\ pc = "done" /\ split.n = 5 /\ 10 * split.tnum = 7 * RatioDen
    /\ 10 * split.vnum = RatioDen
    /\ split.points = <<3, 3>>
    /\ Size("test") = 2

\* C3: a table of 10 rows with train_ratio = 0.7 and val_ratio = 0.2 is split
\* into partitions of 7, 2 and 1 rows.
C3Defaults ==
    (/\ pc = "done" /\ split.n = 10
     /\ 10 * split.tnum = 7 * RatioDen /\ 10 * split.vnum = 2 * RatioDen) =>
        <<Size("train"), Size("val"), Size("test")>> = <<7, 2, 1>>

C3Witness ==
    /\ pc = "done" /\ split.n = 10
    /\ 10 * split.tnum = 7 * RatioDen /\ 10 * split.vnum = 2 * RatioDen
    /\ split.points = <<7, 9>>
    /\ Size("test") = 1

\* C4: when train_ratio + val_ratio > 1, get_dataset on a table with rows
\* fails with an InvalidRatio error and returns no partitions.
C4InvalidRatio ==
    (~ValidRatios /\ csv # << >> /\ ret.op = "get_dataset") =>
        /\ pc = "raised"
        /\ ret.status = "InvalidRatio"

----------------------------------------------------------------------------
(* preprocess(): claims C5, C6, C7 and C9.                                 *)

Raw(f) == Column(csv, f)

Out(f) == Column(processed.data, f)

\* C5: after preprocess every label is in {0, 1}, 'yes' as 1 and 'no' as 0;
\* when a raw label is neither 'yes' nor 'no', preprocess fails with an
\* UnrecognizedLabel error and returns no table.
C5Labels ==
    ret.op = "preprocess" =>
        IF \A i \in 1..Len(csv) : csv[i].y \in {"yes", "no"}
        THEN pc = "preprocessed" =>
                \A i \in 1..Len(csv) :
                    Out("y")[i] = IF csv[i].y = "yes" THEN 1 ELSE 0
        ELSE pc = "raised" /\ ret.status = "UnrecognizedLabel"

\* C6: a table that preprocess returns has an integer code in every month
\* cell, the one the literal month list gives the raw value, whatever the
\* order of the rows; this for every month abbreviation, 'sep' among them.
C6Months ==
    pc = "preprocessed" =>
        \A i \in 1..Len(csv) :
            /\ Out("month")[i] \in Nat
            /\ csv[i].month \in DOMAIN processed.map_records["month"]
            /\ Out("month")[i] = processed.map_records["month"][csv[i].month]

\* The distinct raw values of a column.
Distinct(f) == {csv[i][f] : i \in 1..Len(csv)}

\* C7: the map of a categorical column other than month is injective, its
\* codes are exactly 0 .. k-1 for the k distinct raw values of the column,
\* in the sorted order of the raw values, and every cell of the processed
\* column is the map applied to the row's raw value.
C7CategoryMap ==
    pc = "preprocessed" =>
        /\ DOMAIN processed.map_records["job"] = Distinct("job")
        /\ \A v, w \in Distinct("job") :
              processed.map_records["job"][v] = processed.map_records["job"][w]
                  => v = w
        /\ {processed.map_records["job"][v] : v \in Distinct("job")}
              = 0..(Cardinality(Distinct("job")) - 1)
        /\ \A v, w \in Distinct("job") :
              StrLess(v, w) => processed.map_records["job"][v]
                                  < processed.map_records["job"][w]
        /\ \A i \in 1..Len(csv) :
              Out("job")[i] = processed.map_records["job"][csv[i].job]

\* Three distinct jobs, the first row holding the greatest of them.
C7Witness ==
    /\ pc = "preprocessed"
    /\ Cardinality(Distinct("job")) = 3
    /\ csv[1].job = "technician"
    /\ Out("job")[1] = 2

RECURSIVE InsertInt(_, _)
InsertInt(sorted, v) ==
    IF sorted = << >> THEN <<v>>
    ELSE IF v < Head(sorted) THEN <<v>> \o sorted
    ELSE <<Head(sorted)>> \o InsertInt(Tail(sorted), v)

RECURSIVE SortedInt(_)
SortedInt(l) ==
    IF l = << >> THEN << >>
    ELSE InsertInt(SortedInt(SubSeq(l, 1, Len(l) - 1)), l[Len(l)])

\* a * (100 - frac) + b * frac for the sorted values a, b around position
\* lo + frac / 100, counted from 0.
Between(s, lo, frac) ==
    s[lo + 1] * (100 - frac) + s[IF lo + 2 <= Len(s) THEN lo + 2 ELSE Len(s)] * frac

\* 100 times the p-th percentile (linear interpolation) of a sorted
\* non-empty column s of integers, in exact arithmetic.
Quantile100(s, p) ==
    Between(s, ((Len(s) - 1) * p) \div 100, ((Len(s) - 1) * p) % 100)

\* The column has a non-zero interquartile range.
NonZeroIQR(col) ==
    /\ col # << >>
    /\ Quantile100(SortedInt(col), 75) # Quantile100(SortedInt(col), 25)

IsMin(col, i) == \A j \in 1..Len(col) : col[i] <= col[j]

IsMax(col, i) == \A j \in 1..Len(col) : col[j] <= col[i]

\* 2^-50.
Tolerance == [neg |-> FALSE, man |-> BShl(<<1>>, MantBits - 1),
              exp |-> -50 - (MantBits - 1)]

AboveOne == FAdd(FOne, Tolerance)

BelowOne == FSub(FOne, Tolerance)

\* C9 as claimed: after the two scalings of a continuous column with
\* non-zero interquartile range every value lies in [0, 1], the rows holding
\* the minimum of the column are at 0 and those holding its maximum at 1,
\* and the order of the values is kept.
C9UnitRange ==
    (pc = "preprocessed" /\ NonZeroIQR(Raw("age"))) =>
        \A i \in 1..Len(csv) :
            /\ FLeq(FZero, Out("age")[i]) /\ FLeq(Out("age")[i], FOne)
            /\ IsMin(Raw("age"), i) => Out("age")[i] = FZero
            /\ IsMax(Raw("age"), i) => Out("age")[i] = FOne
            /\ \A j \in 1..Len(csv) :
                  csv[i].age <= csv[j].age => FLeq(Out("age")[i], Out("age")[j])

\* C9, amended: after the two scalings of a continuous column with non-zero
\* interquartile range every value lies in [0, 1 + 2^-50], the rows holding
\* the minimum of the column are at 0 and those holding its maximum within
\* 2^-50 of 1, and the order of the values is kept.
C9NearUnitRange ==
    (pc = "preprocessed" /\ NonZeroIQR(Raw("age"))) =>
        \A i \in 1..Len(csv) :
            /\ FLeq(FZero, Out("age")[i]) /\ FLeq(Out("age")[i], AboveOne)
            /\ IsMin(Raw("age"), i) => Out("age")[i] = FZero
            /\ IsMax(Raw("age"), i) => FLeq(BelowOne, Out("age")[i])
            /\ \A j \in 1..Len(csv) :
                  csv[i].age <= csv[j].age => FLeq(Out("age")[i], Out("age")[j])

\* A column with non-zero interquartile range whose maximum is scaled to a
\* value above 1.
C9Witness ==
    /\ pc = "preprocessed" /\ NonZeroIQR(Raw("age"))
    /\ \E i \in 1..Len(csv) :
          IsMax(Raw("age"), i) /\ FLess(FOne, Out("age")[i])

----------------------------------------------------------------------------
(* BankDataset: claims C8 and C10.                                         *)

\* C8: dataset[i] on a dataset of length L returns a sample only for
\* 0 <= i < L; for i >= L and for every negative i it fails with an
\* out-of-range error.
C8InRangeOnly ==
    ret.op = "getitem" =>
        IF ret.idx \in 0..(Size(ret.ds) - 1)
        THEN ret.result.status = "ok"
        ELSE ret.result.status = "IndexError"

\* C10: no call of len(dataset) or dataset[i], returning or raising, on any
\* of the three datasets changes the file, the cate_features or the
\* cont_features of any of them, or the mapping collection.
C10ReadOnly ==
    [][pc = "done" => datasets' = datasets /\ map_records' = map_records]_vars

\* dataset[i] has returned a sample from a dataset and has raised on one.
C10Witness ==
    /\ pc = "done"
    /\ ret.op = "getitem"
    /\ ret.result.status = "ok"
    /\ \E k \in Names : Size(k) = 0

====
